---- MODULE Spec2Model ----
(***************************************************************************)
(* github-branch-cleaner: the command-line driver (index.js), the branch   *)
(* matcher (lib/branch-matcher.js) and the remote client                   *)
(* (lib/github-api.js) as a state machine.                                 *)
(*                                                                         *)
(* Every remote or git call is one step whose outcome (a result or a       *)
(* thrown error) the environment chooses.  The remote pull-request         *)
(* listing, the local branches, the current branch and the command-line    *)
(* options are chosen in Init and never change during a run.               *)
(***************************************************************************)
EXTENDS Naturals, Sequences, FiniteSets, TLC

VARIABLES
  entry,            \* the exported function / command that is running
  env,              \* what the environment does: [faults, bulk, since]
  run,              \* number of the current call of the entry function
  prev,             \* results of the previous call, or NoPrev
  options,          \* [merged, closed, dryRun, force]
  currentBranch,    \* git branch --show-current
  localBranches,    \* git branch --format=... (main) / the `branches` argument
  remote,           \* the repository's pull requests, updated-at descending
  pc,               \* position in the running function
  branches,         \* the sequence the per-branch loop iterates
  i,                \* index of the loop's current branch
  q,                \* index of the current search strategy (1..3)
  target,           \* number of the pull request whose details are fetched next
  calls,            \* remote calls of the current findPRForBranch invocation
  ret,              \* pending outcome of findPRForBranch: [kind, pr, message]
  fpCalls,          \* branch names findPRForBranch was invoked with, in order
  allPRs,           \* batch path: result of the bulk fetch
  branchToPRMap,    \* batch path: the Map head.ref -> list entry
  path,             \* "none" | "batch" | "fallback" | "direct"
  branchesToDelete, \* the deletion list
  report,           \* main: one record per console line of the lookup loop
  groups,           \* groupBranchesByPRStatus: the five groups
  branchStatus,     \* findBranchesToDelete: the status sequence
  thrown,           \* message of the error the entry function threw, or NoError
  answer,           \* main: the confirmation answer, or NotAsked
  attempts,         \* main: gitOps.deleteBranch calls, [branch, ok]
  deletedCount,     \* main: deletedCount
  pureCall          \* a library function called on its own: [fn, args, ...]

inputs == <<entry, options, currentBranch, localBranches, remote>>
fpVars == <<q, target, calls, ret>>
batchVars == <<allPRs, branchToPRMap>>
resultVars == <<branchesToDelete, report, groups, branchStatus, thrown>>
deleteVars == <<answer, attempts, deletedCount>>
envVars == <<env, run, prev>>
vars == <<inputs, envVars, pc, branches, i, fpVars, fpCalls, batchVars, path,
          resultVars, deleteVars, pureCall>>

(***************************************************************************)
(* Bounds of the model.                                                    *)
(***************************************************************************)
MaxPRs == 2

(***************************************************************************)
(* Program constants.                                                      *)
(***************************************************************************)
ProtectedBranches == <<"main", "master", "develop", "dev">>
perPage == 100
bufferDays == 30

(***************************************************************************)
(* Values.                                                                 *)
(***************************************************************************)
Null == [kind |-> "null"]
NoError == ""
NotAsked == "<not asked>"
NoSince == [present |-> FALSE]
TransportMessage == "ERR"

\* Local branch names in the order git prints them (sorted refnames).
NameOrder == <<"fx", "fy", "main">>
Names == {NameOrder[k] : k \in 1..Len(NameOrder)}

Range(s) == {s[k] : k \in 1..Len(s)}

SeqsUpTo(S, n) == UNION {[1..k -> S] : k \in 0..n}

\* The non-empty lists of distinct names among `names`, in git's order.
BranchLists(names) ==
  {SelectSeq(NameOrder, LAMBDA x : x \in S) : S \in (SUBSET names) \ {{}}}

(***************************************************************************)
(* The remote repository.  A pull request has a number, a head branch      *)
(* (ref, and whether the head lives in a fork, i.e. under another owner),  *)
(* a state, a merged flag and an update time; merged implies closed.       *)
(* The listing is sorted by update time, newest first.                     *)
(***************************************************************************)
Statuses == {"open", "closed", "merged"}

\* The pull requests a listing is drawn from: the repository's own, in every
\* status, and a merged one whose head is a fork's branch named fx.
Shapes(heads) ==
  [head_ref : heads, fork : {FALSE}, status : Statuses]
    \cup [head_ref : heads \cap {"fx"}, fork : {TRUE}, status : {"merged"}]

UpdatedAt(k) == 400 - 90 * k

PullRequest(shape, k, n) ==
  [number |-> 10 + (n - k),
   head_ref |-> shape.head_ref,
   fork |-> shape.fork,
   state |-> IF shape.status = "open" THEN "open" ELSE "closed",
   merged |-> shape.status = "merged",
   updated_at |-> UpdatedAt(k)]

Listing(shapes) ==
  [k \in 1..Len(shapes) |-> PullRequest(shapes[k], k, Len(shapes))]

Remotes(heads) == {Listing(s) : s \in SeqsUpTo(Shapes(heads), MaxPRs)}

\* An entry of a pulls.list response: number, head and update time are what
\* the callers read; the merged flag is only on pulls.get responses.
Summary(p) ==
  [kind |-> "summary", number |-> p.number, head_ref |-> p.head_ref,
   updated_at |-> p.updated_at]

Summaries(listing) == [k \in 1..Len(listing) |-> Summary(listing[k])]

\* A pulls.get response.
Detail(p) ==
  [kind |-> "detail", number |-> p.number, head_ref |-> p.head_ref,
   state |-> p.state, merged |-> p.merged]

RemoteByNumber(n) == CHOOSE p \in Range(remote) : p.number = n

(***************************************************************************)
(* lib/github-api.js                                                       *)
(***************************************************************************)
Since(t) == [present |-> TRUE, at |-> t]

Min(a, b) == IF a < b THEN a ELSE b

\* One page of a pulls.list response.
ListPage(server, page, size) ==
  SubSeq(server, (page - 1) * size + 1, Min(page * size, Len(server)))

\* What the server lists for a request carrying `since`: the whole listing,
\* or (when it honours the parameter) the entries updated at or after it.
ServerListing(listing, since, honoured) ==
  IF since.present /\ honoured = "honoured"
  THEN SelectSeq(listing, LAMBDA p : p.updated_at >= since.at)
  ELSE listing

\* The pagination loop of getAllPullRequests, from page `page` on.
RECURSIVE PageLoop(_, _, _, _)
PageLoop(server, since, page, acc) ==
  LET data == ListPage(server, page, perPage)
      pushed == acc \o data
  IN  IF Len(data) < perPage
      THEN pushed
      ELSE IF since.present /\ Len(data) > 0
              /\ data[Len(data)].updated_at < since.at
           THEN acc \o SelectSeq(data, LAMBDA p : p.updated_at >= since.at)
           ELSE PageLoop(server, since, page + 1, pushed)

getAllPullRequests(server, since) == Summaries(PageLoop(server, since, 1, <<>>))

\* pulls.list with head = owner:branchName: the repository's own pull
\* requests whose head branch is branchName.
\* pulls.list called without per_page answers with one page of the server's
\* default size.
defaultPerPage == 30

FirstPage(listing) == ListPage(listing, 1, defaultPerPage)

\* The head-filtered listing sorted with direction: 'asc', oldest first.
ListForHeadOldestFirst(listing, branchName) ==
  LET own == Summaries(SelectSeq(listing,
                         LAMBDA p : p.head_ref = branchName /\ ~p.fork))
  IN  [k \in 1..Len(own) |-> own[Len(own) + 1 - k]]

ListForHead(listing, branchName) ==
  Summaries(SelectSeq(listing, LAMBDA p : p.head_ref = branchName /\ ~p.fork))

\* The 422 fallback of findPullRequestsForBranch: the unfiltered listing
\* (one page), filtered by head.ref.
FilterByHeadRef(listing, branchName) ==
  Summaries(SelectSeq(listing, LAMBDA p : p.head_ref = branchName))

getPullRequestDetails(prNumber) == Detail(RemoteByNumber(prNumber))

\* search.issuesAndPullRequests: some of the repository's pull requests, in
\* listing order; an item carries pull_request.head.ref or not.
SearchItem(p, withHead) ==
  [number |-> p.number, has_head |-> withHead, head_ref |-> p.head_ref]

SearchResponses(listing) ==
  {[k \in 1..Len(s) |-> SearchItem(s[k], w)] :
     s \in {SelectSeq(listing, LAMBDA p : p.number \in N) :
              N \in SUBSET {p.number : p \in Range(listing)}},
     w \in BOOLEAN}

FetchHeadError(branchName, m) ==
  "Failed to fetch PRs for branch " \o branchName \o ": " \o m
FetchError(m) == "Failed to fetch PRs: " \o m
DetailsError(n, m) ==
  "Failed to get PR details for #" \o ToString(n) \o ": " \o m

(***************************************************************************)
(* lib/branch-matcher.js: the pure helpers                                 *)
(***************************************************************************)
FindError(branchName, m) ==
  "Failed to find PR for branch " \o branchName \o ": " \o m

\* Array.prototype.find, given the elements that satisfy the test in array
\* order: the first of them, or Null.
Find(hits) == IF Len(hits) > 0 THEN hits[1] ELSE Null

\* shouldDeleteBranch without the `!pr.merged` test of its closed case.
ShouldDeleteAnyClosed(pr, opts) ==
  IF pr = Null THEN FALSE
  ELSE IF opts.merged /\ pr.merged THEN TRUE
  ELSE IF opts.closed /\ pr.state = "closed" THEN TRUE
  ELSE FALSE

shouldDeleteBranch(pr, opts) ==
  IF pr = Null THEN FALSE
  ELSE IF opts.merged /\ pr.merged THEN TRUE
  ELSE IF opts.closed /\ pr.state = "closed" /\ ~pr.merged THEN TRUE
  ELSE FALSE

\* isBranchSafeToDelete without the protected-list test.
IsSafeUnlessCurrent(b, current, protectedBranches) ==
  IF b = current THEN FALSE ELSE TRUE

\* isBranchSafeToDelete without the current-branch test.
IsSafeUnlessProtected(b, current, protectedBranches) ==
  IF b \in Range(protectedBranches) THEN FALSE ELSE TRUE

isBranchSafeToDelete(branchName, current, protectedBranches) ==
  IF branchName = current THEN FALSE
  ELSE IF branchName \in Range(protectedBranches) THEN FALSE
  ELSE TRUE

\* The Map built by allPRs.forEach(pr => branchToPRMap.set(pr.head.ref, pr)).
MapSet(m, k, v) == [x \in DOMAIN m \cup {k} |-> IF x = k THEN v ELSE m[x]]
MapGet(m, k) == IF k \in DOMAIN m THEN m[k] ELSE Null
EmptyMap == [x \in {} |-> Null]

RECURSIVE MapAfter(_, _)
MapAfter(prs, n) ==
  IF n = 0 THEN EmptyMap
  ELSE MapSet(MapAfter(prs, n - 1), prs[n].head_ref, prs[n])

BuildBranchToPRMap(prs) == MapAfter(prs, Len(prs))

EmptyGroups ==
  [merged |-> <<>>, closed |-> <<>>, open |-> <<>>, noPR |-> <<>>, error |-> <<>>]

\* filterBranchesForDeletion: merged entries first, then closed ones.
Reasoned(entries, reason, current) ==
  LET safe == SelectSeq(entries,
                LAMBDA e : isBranchSafeToDelete(e.branch, current, ProtectedBranches))
  IN  [k \in 1..Len(safe) |->
         [branch |-> safe[k].branch, pr |-> safe[k].pr, reason |-> reason]]

\* filterBranchesForDeletion taking the merged group whatever options.merged.
FilterMergedAlways(branchGroups, opts, current) ==
  Reasoned(branchGroups.merged, "merged", current)
  \o (IF opts.closed THEN Reasoned(branchGroups.closed, "closed", current) ELSE <<>>)

filterBranchesForDeletion(branchGroups, opts, current) ==
  (IF opts.merged THEN Reasoned(branchGroups.merged, "merged", current) ELSE <<>>)
  \o (IF opts.closed THEN Reasoned(branchGroups.closed, "closed", current) ELSE <<>>)

(***************************************************************************)
(* Initial states                                                          *)
(***************************************************************************)
NoRet == [kind |-> "pending", pr |-> Null, message |-> NoError]
Returned(pr) == [kind |-> "returned", pr |-> pr, message |-> NoError]
Threw(m) == [kind |-> "threw", pr |-> Null, message |-> m]

NoPureCall == [fn |-> "none"]
NoPrev == [path |-> "none"]

\* The environment: `faults` allows remote calls after the bulk fetch to fail
\* (and the head-filtered listing to be rejected with 422); `bulk` says
\* whether the bulk fetch may succeed ("ok"), fail ("fails") or either
\* ("any"); `since` says whether the server honours the since parameter
\* ("honoured", "ignored"), "unobserved" until the first bulk fetch shows it;
\* `search` says what the search endpoint answers: any selection of the pull
\* requests ("any"), nothing ("none"), or all of them with their head ("all").
AnyFault ==
  [faults |-> TRUE, bulk |-> "any", since |-> "unobserved", search |-> "any"]

InitRun ==
  /\ pc = "start"
  /\ branches = <<>>
  /\ i = 0
  /\ q = 1
  /\ target = 0
  /\ calls = <<>>
  /\ ret = NoRet
  /\ fpCalls = <<>>
  /\ allPRs = <<>>
  /\ branchToPRMap = EmptyMap
  /\ path = "none"
  /\ branchesToDelete = <<>>
  /\ report = <<>>
  /\ groups = EmptyGroups
  /\ branchStatus = <<>>
  /\ thrown = NoError
  /\ answer = NotAsked
  /\ attempts = <<>>
  /\ deletedCount = 0
  /\ pureCall = NoPureCall

InitMain ==
  /\ entry = "main"
  /\ options \in [merged : BOOLEAN, closed : BOOLEAN, dryRun : BOOLEAN, force : BOOLEAN]
  /\ localBranches \in BranchLists(Names)
  /\ currentBranch \in Range(localBranches)
  /\ remote \in Remotes({"fx", "fy"})
  /\ env = AnyFault
  /\ run = 1
  /\ prev = NoPrev
  /\ InitRun

(***************************************************************************)
(* findPRForBranch (lib/branch-matcher.js), one step per remote call       *)
(***************************************************************************)
branchName == branches[i]

Logged(op, ok) == calls' = Append(calls, [op |-> op, ok |-> ok])

\* Enter findPRForBranch for list[k].
Enter(list, k) ==
  /\ i' = k
  /\ pc' = "fp_exact"
  /\ q' = 1
  /\ target' = 0
  /\ calls' = <<>>
  /\ ret' = NoRet
  /\ fpCalls' = Append(fpCalls, list[k])

Leave(outcome) ==
  /\ ret' = outcome
  /\ pc' = "fp_return"
  /\ UNCHANGED <<i, q, target, fpCalls>>

\* After prs was obtained by findPullRequestsForBranch.
AfterExact(prs) ==
  IF Len(prs) > 0
  THEN /\ target' = prs[1].number
       /\ pc' = "fp_exact_details"
       /\ UNCHANGED <<i, q, ret, fpCalls>>
  ELSE /\ pc' = "fp_search"
       /\ UNCHANGED <<i, q, target, ret, fpCalls>>

\* The search loop moves to its next strategy, or on to the full listing.
NextStrategy ==
  /\ IF q < 3 THEN q' = q + 1 /\ pc' = "fp_search"
              ELSE q' = q /\ pc' = "fp_full"
  /\ UNCHANGED <<i, ret, fpCalls>>

fpFrame ==
  <<inputs, envVars, branches, batchVars, path, resultVars, deleteVars, pureCall>>

\* findPullRequestsForBranch: pulls.list with the head filter.
FPExact ==
  /\ pc = "fp_exact"
  /\ \/ /\ Logged("pulls.list head", "ok")
        /\ AfterExact(ListForHead(remote, branchName))
     \/ /\ env.faults
        /\ Logged("pulls.list head", "422")
        /\ pc' = "fp_exact_422"
        /\ UNCHANGED <<i, q, target, ret, fpCalls>>
     \/ /\ env.faults
        /\ Logged("pulls.list head", "error")
        /\ Leave(Threw(FindError(branchName,
                     FetchHeadError(branchName, TransportMessage))))
  /\ UNCHANGED fpFrame

\* findPullRequestsForBranch after a 422: pulls.list without the head filter.
FPExact422 ==
  /\ pc = "fp_exact_422"
  /\ \/ /\ Logged("pulls.list", "ok")
        /\ AfterExact(FilterByHeadRef(FirstPage(remote), branchName))
     \/ /\ env.faults
        /\ Logged("pulls.list", "error")
        /\ Leave(Threw(FindError(branchName, FetchError(TransportMessage))))
  /\ UNCHANGED fpFrame

\* A pulls.list entry read as a pull request: it has no merged property, so
\* `pr.merged` is falsy.
Listed(p) ==
  [kind |-> "summary", number |-> p.number, head_ref |-> p.head_ref,
   state |-> p.state, merged |-> FALSE]

\* findPRForBranch returning prs[0] as listed, without the details fetch.
FPExactReturnsListed ==
  /\ pc = "fp_exact_details"
  /\ Leave(Returned(Listed(RemoteByNumber(target))))
  /\ UNCHANGED calls
  /\ UNCHANGED fpFrame

\* getPullRequestDetails for prs[0]; a failure reaches the outer catch.
FPExactDetails ==
  /\ pc = "fp_exact_details"
  /\ \/ /\ Logged("pulls.get", "ok")
        /\ Leave(Returned(getPullRequestDetails(target)))
     \/ /\ env.faults
        /\ Logged("pulls.get", "error")
        /\ Leave(Threw(FindError(branchName,
                     DetailsError(target, TransportMessage))))
  /\ UNCHANGED fpFrame

\* The title search tried before the head search.
SearchOpReordered == <<"search in:title", "search head:", "search bare">>

\* searchStrategies, in array order.
SearchOp == <<"search head:", "search in:title", "search bare">>

\* The strategy's catch rethrowing to the outer catch instead of logging.
SearchRethrows ==
  Leave(Threw(FindError(branches[i], "Failed to search PRs: " \o TransportMessage)))

\* catch (searchError): the failure is logged and the loop goes on.
SearchCaught ==
  /\ NextStrategy
  /\ UNCHANGED target

\* data.items of one search call under the environment's search behaviour.
SearchAnswers ==
  IF env.search = "any" THEN SearchResponses(remote)
  ELSE IF env.search = "none" THEN {<<>>}
  ELSE {[k \in 1..Len(remote) |-> SearchItem(remote[k], TRUE)]}

\* One search strategy: searchPullRequests, then find on the results.
FPSearch ==
  /\ pc = "fp_search"
  /\ \/ /\ env.faults
        /\ Logged(SearchOp[q], "error")
        /\ SearchCaught
     \/ \E searchResults \in SearchAnswers :
          LET exactMatch ==
                Find(SelectSeq(searchResults,
                       LAMBDA it : it.has_head /\ it.head_ref = branchName))
          IN  /\ Logged(SearchOp[q], "ok")
              /\ IF exactMatch # Null
                 THEN /\ target' = exactMatch.number
                      /\ pc' = "fp_search_details"
                      /\ UNCHANGED <<i, q, ret, fpCalls>>
                 ELSE NextStrategy /\ UNCHANGED target
  /\ UNCHANGED fpFrame

\* getPullRequestDetails for a search match; a failure is caught by the
\* strategy's own catch and the loop continues.
FPSearchDetails ==
  /\ pc = "fp_search_details"
  /\ \/ /\ Logged("pulls.get", "ok")
        /\ Leave(Returned(getPullRequestDetails(target)))
     \/ /\ env.faults
        /\ Logged("pulls.get", "error")
        /\ SearchCaught
  /\ UNCHANGED fpFrame

\* The last resort throwing, instead of returning null, when nothing matches.
NoMatchThrows ==
  Threw(FindError(branches[i], "No PR found"))

\* The last-resort catch rethrowing instead of logging.
LastResortRethrows ==
  Threw(FindError(branches[i], FetchError(TransportMessage)))

\* `return null` when the full listing holds no pull request of the branch.
NoMatch == Returned(Null)

\* The last-resort catch: the failure is logged, then `return null`.
LastResortCaught == Returned(Null)

\* Last resort: getAllPullRequests without options, then find by head.ref.
FPFull ==
  /\ pc = "fp_full"
  /\ \/ LET all == getAllPullRequests(remote, NoSince)
            matchingPR == Find(SelectSeq(all, LAMBDA p : p.head_ref = branchName))
        IN  /\ Logged("pulls.list all", "ok")
            /\ IF matchingPR # Null
               THEN /\ target' = matchingPR.number
                    /\ pc' = "fp_full_details"
                    /\ UNCHANGED <<i, q, ret, fpCalls>>
               ELSE Leave(NoMatch)
     \/ /\ env.faults
        /\ Logged("pulls.list all", "error")
        /\ Leave(LastResortCaught)
  /\ UNCHANGED fpFrame

\* getPullRequestDetails for the full-listing match; a failure is caught by
\* the last-resort catch, after which null is returned.
FPFullDetails ==
  /\ pc = "fp_full_details"
  /\ \/ /\ Logged("pulls.get", "ok")
        /\ Leave(Returned(getPullRequestDetails(target)))
     \/ /\ env.faults
        /\ Logged("pulls.get", "error")
        /\ Leave(LastResortCaught)
  /\ UNCHANGED fpFrame

FindPRForBranch ==
  \/ FPExact
  \/ FPExact422
  \/ FPExactDetails
  \/ FPSearch
  \/ FPSearchDetails
  \/ FPFull
  \/ FPFullDetails

(***************************************************************************)
(* The callers' continuation after findPRForBranch returned or threw       *)
(***************************************************************************)
\* The lookup loop pushing every branch with a pull request, whatever
\* shouldDeleteBranch says.
MainPushFound(list, branch, outcome) ==
  IF outcome.kind = "returned" /\ outcome.pr # Null
  THEN Append(list, [branch |-> branch, pr |-> outcome.pr])
  ELSE list

\* main: the body of the lookup loop after the await.
MainPush(list, branch, outcome) ==
  IF outcome.kind = "returned" /\ outcome.pr # Null
     /\ shouldDeleteBranch(outcome.pr, options)
  THEN Append(list, [branch |-> branch, pr |-> outcome.pr])
  ELSE list

MainLine(branch, outcome) ==
  [branch |-> branch,
   line |-> IF outcome.kind = "threw" THEN "Error checking PR"
            ELSE IF outcome.pr = Null THEN "No PR found"
            ELSE IF shouldDeleteBranch(outcome.pr, options) THEN "delete"
            ELSE "keeping",
   pr |-> outcome.pr,
   message |-> outcome.message]

\* main after the lookup loop with the force test ahead of the dryRun test.
MainAfterLoopForceFirst(list) ==
  IF Len(list) = 0 THEN "done"
  ELSE IF options.force THEN "delete"
  ELSE IF options.dryRun THEN "done"
  ELSE "confirm"

\* main after the lookup loop, up to the next await.
MainAfterLoop(list) ==
  IF Len(list) = 0 THEN "done"
  ELSE IF options.dryRun THEN "done"
  ELSE IF ~options.force THEN "confirm"
  ELSE "delete"

\* The if-chain with a failed lookup filed under noPR, its message dropped.
GroupPushErrorAsNoPR(g, branch, outcome) ==
  IF outcome.kind = "threw" \/ outcome.pr = Null
  THEN [g EXCEPT !.noPR = Append(@, [branch |-> branch, pr |-> Null])]
  ELSE IF outcome.pr.merged
  THEN [g EXCEPT !.merged = Append(@, [branch |-> branch, pr |-> outcome.pr])]
  ELSE IF outcome.pr.state = "closed"
  THEN [g EXCEPT !.closed = Append(@, [branch |-> branch, pr |-> outcome.pr])]
  ELSE [g EXCEPT !.open = Append(@, [branch |-> branch, pr |-> outcome.pr])]

\* The if-chain without its last branch: an open pull request is not filed.
GroupPushDropsOpen(g, branch, outcome) ==
  IF outcome.kind = "threw"
  THEN [g EXCEPT !.error = Append(@, [branch |-> branch, error |-> outcome.message])]
  ELSE IF outcome.pr = Null
  THEN [g EXCEPT !.noPR = Append(@, [branch |-> branch, pr |-> Null])]
  ELSE IF outcome.pr.merged
  THEN [g EXCEPT !.merged = Append(@, [branch |-> branch, pr |-> outcome.pr])]
  ELSE IF outcome.pr.state = "closed"
  THEN [g EXCEPT !.closed = Append(@, [branch |-> branch, pr |-> outcome.pr])]
  ELSE g

\* groupBranchesByPRStatus: the if-chain that files one branch.
GroupPush(g, branch, outcome) ==
  IF outcome.kind = "threw"
  THEN [g EXCEPT !.error = Append(@, [branch |-> branch, error |-> outcome.message])]
  ELSE IF outcome.pr = Null
  THEN [g EXCEPT !.noPR = Append(@, [branch |-> branch, pr |-> Null])]
  ELSE IF outcome.pr.merged
  THEN [g EXCEPT !.merged = Append(@, [branch |-> branch, pr |-> outcome.pr])]
  ELSE IF outcome.pr.state = "closed"
  THEN [g EXCEPT !.closed = Append(@, [branch |-> branch, pr |-> outcome.pr])]
  ELSE IF outcome.pr.state = "open"
  THEN [g EXCEPT !.open = Append(@, [branch |-> branch, pr |-> outcome.pr])]
  ELSE g

\* findBranchesToDelete: the status entry of one branch (the title part of
\* the status text is left out).
StatusEntry(branch, outcome) ==
  IF outcome.kind = "threw"
  THEN [branch |-> branch, pr |-> Null,
        status |-> "Error: " \o outcome.message, shouldDelete |-> FALSE]
  ELSE IF outcome.pr = Null
  THEN [branch |-> branch, pr |-> Null, status |-> "No PR found"]
  ELSE [branch |-> branch, pr |-> outcome.pr,
        status |-> (IF outcome.pr.merged THEN "merged" ELSE outcome.pr.state)
                   \o " PR #" \o ToString(outcome.pr.number),
        shouldDelete |-> shouldDeleteBranch(outcome.pr, options)]

\* findBranchesToDelete pushing without the isBranchSafeToDelete test.
FindPushUnguarded(list, branch, outcome) ==
  IF outcome.kind = "returned" /\ outcome.pr # Null
     /\ shouldDeleteBranch(outcome.pr, options)
  THEN Append(list, [branch |-> branch, pr |-> outcome.pr,
                     reason |-> IF outcome.pr.merged THEN "merged" ELSE "closed"])
  ELSE list

\* findBranchesToDelete: the push onto branchesToDelete for one branch.
FindPush(list, branch, outcome) ==
  IF outcome.kind = "returned" /\ outcome.pr # Null
     /\ shouldDeleteBranch(outcome.pr, options)
     /\ isBranchSafeToDelete(branch, currentBranch, ProtectedBranches)
  THEN Append(list, [branch |-> branch, pr |-> outcome.pr,
                     reason |-> IF outcome.pr.merged THEN "merged" ELSE "closed"])
  ELSE list

\* The results after one branch was settled with `outcome`.
Settle(outcome) ==
  /\ branchesToDelete' =
       IF entry = "main" THEN MainPush(branchesToDelete, branchName, outcome)
       ELSE IF entry = "findBranchesToDelete"
       THEN FindPush(branchesToDelete, branchName, outcome)
       ELSE branchesToDelete
  /\ report' = IF entry = "main" THEN Append(report, MainLine(branchName, outcome))
               ELSE report
  /\ groups' = IF entry = "groupBranchesByPRStatus"
               THEN GroupPush(groups, branchName, outcome)
               ELSE groups
  /\ branchStatus' = IF entry = "findBranchesToDelete"
                     THEN Append(branchStatus, StatusEntry(branchName, outcome))
                     ELSE branchStatus
  /\ UNCHANGED thrown

\* Where the entry function goes when its per-branch loop is over.
AfterLoop ==
  IF entry = "main" THEN MainAfterLoop(branchesToDelete')
  ELSE IF entry = "groupBranchesByPRStatus" THEN "filter"
  ELSE "done"

\* The loop without its inner try/catch: a throwing lookup ends the loop and
\* the error leaves the entry function.
ResumeAborts ==
  /\ pc = "fp_return"
  /\ IF ret.kind = "threw"
     THEN /\ thrown' = ret.message
          /\ pc' = "done"
          /\ UNCHANGED <<i, fpCalls, branchesToDelete, report, groups, branchStatus>>
     ELSE /\ Settle(ret)
          /\ IF i < Len(branches)
             THEN /\ i' = i + 1
                  /\ pc' = "fp_exact"
                  /\ fpCalls' = Append(fpCalls, branches[i + 1])
             ELSE /\ pc' = AfterLoop
                  /\ i' = IF AfterLoop = "delete" THEN 1 ELSE i
                  /\ UNCHANGED fpCalls
  /\ q' = 1
  /\ target' = 0
  /\ calls' = <<>>
  /\ ret' = NoRet
  /\ UNCHANGED <<inputs, envVars, branches, batchVars, path, deleteVars, pureCall>>

\* The caller's code after `await findPRForBranch(...)`, and the loop's step.
Resume ==
  /\ pc = "fp_return"
  /\ Settle(ret)
  /\ IF i < Len(branches)
     THEN Enter(branches, i + 1)
     ELSE /\ pc' = AfterLoop
          /\ i' = IF AfterLoop = "delete" THEN 1 ELSE i
          /\ q' = 1
          /\ target' = 0
          /\ calls' = <<>>
          /\ ret' = NoRet
          /\ UNCHANGED fpCalls
  /\ UNCHANGED <<inputs, envVars, branches, batchVars, path, deleteVars, pureCall>>

(***************************************************************************)
(* main (index.js)                                                         *)
(***************************************************************************)
MainFatal ==
  {"This command must be run from within a Git repository",
   "GITHUB_TOKEN environment variable is required. Please set it in your .env file.",
   "Failed to get repository information: " \o TransportMessage,
   "Failed to get current branch: " \o TransportMessage,
   "Failed to get local branches: " \o TransportMessage}

NoOptionError == "Please specify at least one option: --merged or --closed"

branchesToCheck ==
  SelectSeq(localBranches,
            LAMBDA b : b # currentBranch /\ b \notin Range(ProtectedBranches))

\* main up to its first lookup: the validations, the git queries, the filter.
MainStart ==
  /\ pc = "start"
  /\ entry = "main"
  /\ \/ /\ \E m \in MainFatal : thrown' = m
        /\ pc' = "done"
        /\ UNCHANGED <<branches, i, fpVars, fpCalls, path>>
     \/ /\ ~options.merged /\ ~options.closed
        /\ thrown' = NoOptionError
        /\ pc' = "done"
        /\ UNCHANGED <<branches, i, fpVars, fpCalls, path>>
     \/ /\ options.merged \/ options.closed
        /\ branches' = branchesToCheck
        /\ UNCHANGED thrown
        /\ IF Len(branchesToCheck) = 0
           THEN pc' = "done" /\ UNCHANGED <<i, fpVars, fpCalls, path>>
           ELSE Enter(branchesToCheck, 1) /\ path' = "direct"
  /\ UNCHANGED <<inputs, envVars, batchVars, branchesToDelete, report, groups,
                 branchStatus, deleteVars, pureCall>>

Answers == {"y", "Yes", "n", ""}

\* The answer compared as typed.
AsTyped(s) == s

toLowerCase(s) ==
  CASE s = "Y" -> "y"
    [] s = "Yes" -> "yes"
    [] OTHER -> s

\* The confirmation prompt is answered.
MainConfirm ==
  /\ pc = "confirm"
  /\ \E a \in Answers :
       /\ answer' = a
       /\ IF toLowerCase(a) # "y" /\ toLowerCase(a) # "yes"
          THEN pc' = "done" /\ i' = i
          ELSE pc' = "delete" /\ i' = 1
  /\ UNCHANGED <<inputs, envVars, branches, fpVars, fpCalls, batchVars, path,
                 resultVars, attempts, deletedCount, pureCall>>

\* The deletion loop without its try/catch: a failed deletion ends the loop.
MainDeleteAborts ==
  /\ pc = "delete"
  /\ \E ok \in BOOLEAN :
       /\ attempts' = Append(attempts,
                             [branch |-> branchesToDelete[i].branch, ok |-> ok])
       /\ deletedCount' = IF ok THEN deletedCount + 1 ELSE deletedCount
       /\ IF ok /\ i < Len(branchesToDelete)
          THEN i' = i + 1 /\ pc' = "delete"
          ELSE i' = i /\ pc' = "done"
  /\ UNCHANGED <<inputs, envVars, branches, fpVars, fpCalls, batchVars, path,
                 resultVars, answer, pureCall>>

\* One iteration of the deletion loop: gitOps.deleteBranch succeeds or throws.
MainDelete ==
  /\ pc = "delete"
  /\ \E ok \in BOOLEAN :
       /\ attempts' = Append(attempts,
                             [branch |-> branchesToDelete[i].branch, ok |-> ok])
       /\ deletedCount' = IF ok THEN deletedCount + 1 ELSE deletedCount
  /\ IF i < Len(branchesToDelete)
     THEN i' = i + 1 /\ pc' = "delete"
     ELSE i' = i /\ pc' = "done"
  /\ UNCHANGED <<inputs, envVars, branches, fpVars, fpCalls, batchVars, path,
                 resultVars, answer, pureCall>>

NextMain == MainStart \/ FindPRForBranch \/ Resume \/ MainConfirm \/ MainDelete

SpecMain == InitMain /\ [][NextMain]_vars

(***************************************************************************)
(* groupBranchesByPRStatus / findBranchesToDelete (lib/branch-matcher.js)  *)
(***************************************************************************)
\* Day of the earliest local commit of each branch.
CommitDay(b) ==
  CASE b = "fx" -> 330
    [] b = "fy" -> 240
    [] OTHER -> 400

\* gitOps.getOldestLocalCommitDate: the minimum over the given branches.
getOldestLocalCommitDate(list) ==
  CHOOSE d \in {CommitDay(b) : b \in Range(list)} :
    \A b \in Range(list) : d <= CommitDay(b)

searchSince(list) == Since(getOldestLocalCommitDate(list) - bufferDays)

InitMatcher ==
  /\ entry \in {"groupBranchesByPRStatus", "findBranchesToDelete"}
  /\ options \in [merged : BOOLEAN, closed : BOOLEAN, dryRun : {FALSE}, force : {FALSE}]
  /\ localBranches \in BranchLists({"fx", "main"})
  /\ currentBranch \in {"fx", "main"}
  /\ remote \in Remotes({"fx", "main"})
  /\ env = AnyFault
  /\ run = 1
  /\ prev = NoPrev
  /\ InitRun

\* The outer try block up to the per-branch loop: the oldest commit date, the
\* bulk fetch and the Map; any throw abandons the batch path.
BatchStart ==
  /\ pc = "start"
  /\ entry \in {"groupBranchesByPRStatus", "findBranchesToDelete"}
  /\ branches' = localBranches
  /\ \/ \E honoured \in {"honoured", "ignored"} :
          LET fetched == getAllPullRequests(
                           ServerListing(remote, searchSince(localBranches), honoured),
                           searchSince(localBranches))
          IN  /\ env.bulk # "fails"
              /\ env.since \in {"unobserved", honoured}
              /\ env' = [env EXCEPT !.since = honoured]
              /\ allPRs' = fetched
              /\ branchToPRMap' = BuildBranchToPRMap(fetched)
              /\ path' = "batch"
              /\ pc' = "batch_loop"
              /\ i' = 1
              /\ calls' = <<[op |-> "pulls.list since", ok |-> "ok"]>>
              /\ UNCHANGED <<q, target, ret, fpCalls>>
     \/ /\ env.bulk # "ok"
        /\ path' = "fallback"
        /\ Enter(localBranches, 1)
        /\ UNCHANGED <<env, batchVars>>
  /\ UNCHANGED <<inputs, run, prev, resultVars, deleteVars, pureCall>>

\* The batch loop fetching the details a second time when the first fetch
\* failed.
BatchBranchRetries ==
  /\ pc = "batch_loop"
  /\ LET basicPR == MapGet(branchToPRMap, branchName)
     IN  IF basicPR = Null
         THEN Settle(Returned(Null)) /\ UNCHANGED calls
         ELSE \/ /\ Logged("pulls.get", "ok")
                 /\ Settle(Returned(getPullRequestDetails(basicPR.number)))
              \/ /\ env.faults
                 /\ calls' = calls \o <<[op |-> "pulls.get", ok |-> "error"],
                                        [op |-> "pulls.get", ok |-> "ok"]>>
                 /\ Settle(Returned(getPullRequestDetails(basicPR.number)))
  /\ IF i < Len(branches)
     THEN i' = i + 1 /\ pc' = "batch_loop"
     ELSE i' = i /\ pc' = AfterLoop
  /\ UNCHANGED <<inputs, envVars, branches, q, target, ret, fpCalls, batchVars,
                 path, deleteVars, pureCall>>

\* The batch loop of findBranchesToDelete with an empty catch: a branch whose
\* details fetch failed gets no status entry.
BatchBranchDropsErrors ==
  /\ pc = "batch_loop"
  /\ LET basicPR == MapGet(branchToPRMap, branchName)
     IN  IF basicPR = Null
         THEN Settle(Returned(Null)) /\ UNCHANGED calls
         ELSE \/ /\ Logged("pulls.get", "ok")
                 /\ Settle(Returned(getPullRequestDetails(basicPR.number)))
              \/ /\ env.faults
                 /\ Logged("pulls.get", "error")
                 /\ UNCHANGED resultVars
  /\ IF i < Len(branches)
     THEN i' = i + 1 /\ pc' = "batch_loop"
     ELSE i' = i /\ pc' = AfterLoop
  /\ UNCHANGED <<inputs, envVars, branches, q, target, ret, fpCalls, batchVars,
                 path, deleteVars, pureCall>>

\* One iteration of the batch loop: the Map lookup and, for a hit, the
\* details fetch, which returns or throws into the iteration's catch.
BatchBranch ==
  /\ pc = "batch_loop"
  /\ LET basicPR == MapGet(branchToPRMap, branchName)
     IN  IF basicPR = Null
         THEN Settle(Returned(Null)) /\ UNCHANGED calls
         ELSE \/ /\ Logged("pulls.get", "ok")
                 /\ Settle(Returned(getPullRequestDetails(basicPR.number)))
              \/ /\ env.faults
                 /\ Logged("pulls.get", "error")
                 /\ Settle(Threw(DetailsError(basicPR.number, TransportMessage)))
  /\ IF i < Len(branches)
     THEN i' = i + 1 /\ pc' = "batch_loop"
     ELSE i' = i /\ pc' = AfterLoop
  /\ UNCHANGED <<inputs, envVars, branches, q, target, ret, fpCalls, batchVars,
                 path, deleteVars, pureCall>>

\* The caller applies filterBranchesForDeletion to the groups.
GroupFilter ==
  /\ pc = "filter"
  /\ branchesToDelete' = filterBranchesForDeletion(groups, options, currentBranch)
  /\ pc' = "done"
  /\ UNCHANGED <<inputs, envVars, branches, i, fpVars, fpCalls, batchVars, path,
                 report, groups, branchStatus, thrown, deleteVars, pureCall>>

NextMatcher == BatchStart \/ BatchBranch \/ FindPRForBranch \/ Resume \/ GroupFilter

SpecMatcher == InitMatcher /\ [][NextMatcher]_vars

(***************************************************************************)
(* Two calls in a row on the same inputs and the same remote data: the     *)
(* first with the bulk fetch failing, the second with it succeeding, and   *)
(* no other remote failure in either.                                      *)
(***************************************************************************)
InitTwice ==
  /\ entry \in {"groupBranchesByPRStatus", "findBranchesToDelete"}
  /\ options \in [merged : BOOLEAN, closed : BOOLEAN, dryRun : {FALSE}, force : {FALSE}]
  /\ localBranches \in BranchLists({"fx", "main"})
  /\ currentBranch \in {"fx", "main"}
  /\ remote \in Remotes({"fx", "main"})
  /\ env = [faults |-> FALSE, bulk |-> "fails", since |-> "unobserved",
            search |-> "any"]
  /\ run = 1
  /\ prev = NoPrev
  /\ InitRun

Snapshot ==
  [path |-> path, groups |-> groups, branchStatus |-> branchStatus,
   branchesToDelete |-> branchesToDelete, fpCalls |-> fpCalls]

\* The entry function is called again.
CallAgain ==
  /\ pc = "done"
  /\ run = 1
  /\ prev' = Snapshot
  /\ run' = 2
  /\ env' = [env EXCEPT !.bulk = "ok"]
  /\ pc' = "start"
  /\ branches' = <<>>
  /\ i' = 0
  /\ fpCalls' = <<>>
  /\ allPRs' = <<>>
  /\ branchToPRMap' = EmptyMap
  /\ path' = "none"
  /\ branchesToDelete' = <<>>
  /\ groups' = EmptyGroups
  /\ branchStatus' = <<>>
  /\ UNCHANGED <<inputs, fpVars, report, thrown, deleteVars, pureCall>>

NextTwice ==
  \/ BatchStart
  \/ BatchBranch
  \/ FPExact
  \/ FPExactDetails
  \/ FPSearch
  \/ FPSearchDetails
  \/ FPFull
  \/ FPFullDetails
  \/ Resume
  \/ GroupFilter
  \/ CallAgain

SpecTwice == InitTwice /\ [][NextTwice]_vars

(***************************************************************************)
(* Two calls in a row on the same inputs, the same remote data and the     *)
(* same remote behaviour: the bulk fetch fails in both or in neither, the  *)
(* search endpoint answers alike, and no other remote call fails.          *)
(***************************************************************************)
InitRepeat ==
  /\ entry \in {"groupBranchesByPRStatus", "findBranchesToDelete"}
  /\ options \in [merged : BOOLEAN, closed : BOOLEAN, dryRun : {FALSE}, force : {FALSE}]
  /\ localBranches \in BranchLists({"fx", "main"})
  /\ currentBranch \in {"fx", "main"}
  /\ remote \in Remotes({"fx", "main"})
  /\ env \in [faults : {FALSE}, bulk : {"fails", "ok"}, since : {"unobserved"},
              search : {"none", "all"}]
  /\ run = 1
  /\ prev = NoPrev
  /\ InitRun

\* The entry function called again with its result arrays kept from the
\* first call, as if they were declared outside the function.
CallRepeatKeepsResults ==
  /\ pc = "done"
  /\ run = 1
  /\ prev' = Snapshot
  /\ run' = 2
  /\ pc' = "start"
  /\ branches' = <<>>
  /\ i' = 0
  /\ fpCalls' = <<>>
  /\ allPRs' = <<>>
  /\ branchToPRMap' = EmptyMap
  /\ path' = "none"
  /\ UNCHANGED <<inputs, env, fpVars, resultVars, deleteVars, pureCall>>

\* The entry function is called again; its locals start afresh.
CallRepeat ==
  /\ pc = "done"
  /\ run = 1
  /\ prev' = Snapshot
  /\ run' = 2
  /\ pc' = "start"
  /\ branches' = <<>>
  /\ i' = 0
  /\ fpCalls' = <<>>
  /\ allPRs' = <<>>
  /\ branchToPRMap' = EmptyMap
  /\ path' = "none"
  /\ branchesToDelete' = <<>>
  /\ groups' = EmptyGroups
  /\ branchStatus' = <<>>
  /\ UNCHANGED <<inputs, env, fpVars, report, thrown, deleteVars, pureCall>>

NextRepeat ==
  \/ BatchStart
  \/ BatchBranch
  \/ FPExact
  \/ FPExactDetails
  \/ FPSearch
  \/ FPSearchDetails
  \/ FPFull
  \/ FPFullDetails
  \/ Resume
  \/ GroupFilter
  \/ CallRepeat

SpecRepeat == InitRepeat /\ [][NextRepeat]_vars

(***************************************************************************)
(* groupBranchesByPRStatus followed by filterBranchesForDeletion, then      *)
(* findBranchesToDelete, on the same branches, options, current branch and *)
(* remote data, with no remote call failing.                               *)
(***************************************************************************)
InitBoth ==
  /\ entry = "groupBranchesByPRStatus"
  /\ options \in [merged : BOOLEAN, closed : BOOLEAN, dryRun : {FALSE}, force : {FALSE}]
  /\ localBranches \in BranchLists(Names)
  /\ currentBranch \in Names
  /\ remote \in Remotes({"fx", "fy"})
  /\ env = [faults |-> FALSE, bulk |-> "ok", since |-> "unobserved",
            search |-> "any"]
  /\ run = 1
  /\ prev = NoPrev
  /\ InitRun

\* The caller goes on to call findBranchesToDelete with the same arguments.
CallOther ==
  /\ pc = "done"
  /\ run = 1
  /\ prev' = Snapshot
  /\ run' = 2
  /\ entry' = "findBranchesToDelete"
  /\ pc' = "start"
  /\ branches' = <<>>
  /\ i' = 0
  /\ fpCalls' = <<>>
  /\ allPRs' = <<>>
  /\ branchToPRMap' = EmptyMap
  /\ path' = "none"
  /\ branchesToDelete' = <<>>
  /\ groups' = EmptyGroups
  /\ branchStatus' = <<>>
  /\ UNCHANGED <<options, currentBranch, localBranches, remote, env, fpVars,
                 report, thrown, deleteVars, pureCall>>

NextBoth == BatchStart \/ BatchBranch \/ GroupFilter \/ CallOther

SpecBoth == InitBoth /\ [][NextBoth]_vars

(***************************************************************************)
(* The remote client (lib/github-api.js) called on its own, against        *)
(* listings long enough to span several pages.  pureCall is the call's     *)
(* frame: its arguments, its locals and the requests it has issued.        *)
(***************************************************************************)
MaxPages == 2

PageLengths == {k * perPage + d : k \in 0..MaxPages, d \in {0, 1, 31, 99}}

\* A listing of n open pull requests, newest first, one day apart, with
\* heads fx and fy alternating.
LongListing(n) ==
  [k \in 1..n |->
     [number |-> n - k + 1, head_ref |-> IF k % 2 = 1 THEN "fx" ELSE "fy",
      fork |-> FALSE, state |-> "open", merged |-> FALSE,
      updated_at |-> 1000 - k]]

\* options.since: absent, or a bound that the c newest pull requests meet.
SinceArgs == {NoSince} \cup {Since(1000 - c) : c \in PageLengths}

GetAllError == "Failed to get all PRs: " \o TransportMessage

InitClient ==
  /\ entry \in {"getAllPullRequests", "findPullRequestsForBranch"}
  /\ options = [merged |-> FALSE, closed |-> FALSE, dryRun |-> FALSE, force |-> FALSE]
  /\ localBranches = <<>>
  /\ currentBranch = "main"
  /\ remote \in {LongListing(n) : n \in PageLengths}
  /\ env \in [faults : {TRUE}, bulk : {"any"}, since : {"honoured", "ignored"},
              search : {"any"}]
  /\ run = 1
  /\ prev = NoPrev
  /\ InitRun

clientFrame ==
  <<inputs, envVars, branches, i, fpVars, fpCalls, batchVars, path,
    branchesToDelete, report, groups, branchStatus, deleteVars>>

CallGetAllPullRequests ==
  /\ pc = "start"
  /\ entry = "getAllPullRequests"
  /\ \E since \in SinceArgs :
       pureCall' = [fn |-> "getAllPullRequests", since |-> since, page |-> 1,
                    allPRs |-> <<>>, requests |-> <<>>]
  /\ pc' = "page_loop"
  /\ UNCHANGED <<clientFrame, thrown>>

\* The loop breaking after every page, full or not.
GetPageOnce ==
  /\ pc = "page_loop"
  /\ LET data == ListPage(ServerListing(remote, pureCall.since, env.since),
                          pureCall.page, perPage)
     IN  /\ pureCall' = [pureCall EXCEPT !.allPRs = @ \o Summaries(data),
                                         !.requests = Append(@, pureCall.page)]
         /\ pc' = "done"
  /\ UNCHANGED <<clientFrame, thrown>>

\* The loop breaking only on an empty page: a short page is followed by one
\* more request.
GetPageUntilEmpty ==
  /\ pc = "page_loop"
  /\ \/ LET since == pureCall.since
             data == ListPage(ServerListing(remote, since, env.since),
                              pureCall.page, perPage)
             pushed == pureCall.allPRs \o Summaries(data)
         IN  /\ UNCHANGED thrown
             /\ IF Len(data) = 0
                THEN /\ pureCall' = [pureCall EXCEPT !.allPRs = pushed,
                                        !.requests = Append(@, pureCall.page)]
                     /\ pc' = "done"
                ELSE /\ pureCall' = [pureCall EXCEPT !.allPRs = pushed,
                                        !.requests = Append(@, pureCall.page),
                                        !.page = @ + 1]
                     /\ pc' = "page_loop"
     \/ /\ env.faults
        /\ pureCall' = [pureCall EXCEPT !.requests = Append(@, pureCall.page)]
        /\ thrown' = GetAllError
        /\ pc' = "done"
  /\ UNCHANGED clientFrame

\* One iteration of the while loop: the request for the current page, the
\* push, and the two break tests; or the request fails and the call throws.
GetPage ==
  /\ pc = "page_loop"
  /\ \/ LET since == pureCall.since
             data == ListPage(ServerListing(remote, since, env.since),
                              pureCall.page, perPage)
             pushed == pureCall.allPRs \o Summaries(data)
         IN  /\ UNCHANGED thrown
             /\ IF Len(data) < perPage
                THEN /\ pureCall' = [pureCall EXCEPT !.allPRs = pushed,
                                        !.requests = Append(@, pureCall.page)]
                     /\ pc' = "done"
                ELSE IF since.present /\ Len(data) > 0
                        /\ data[Len(data)].updated_at < since.at
                THEN /\ pureCall' =
                          [pureCall EXCEPT
                             !.allPRs = pureCall.allPRs \o
                                Summaries(SelectSeq(data,
                                   LAMBDA p : p.updated_at >= since.at)),
                             !.requests = Append(@, pureCall.page)]
                     /\ pc' = "done"
                ELSE /\ pureCall' = [pureCall EXCEPT !.allPRs = pushed,
                                        !.requests = Append(@, pureCall.page),
                                        !.page = @ + 1]
                     /\ pc' = "page_loop"
     \/ /\ env.faults
        /\ pureCall' = [pureCall EXCEPT !.requests = Append(@, pureCall.page)]
        /\ thrown' = GetAllError
        /\ pc' = "done"
  /\ UNCHANGED clientFrame

CallFindPullRequestsForBranch ==
  /\ pc = "start"
  /\ entry = "findPullRequestsForBranch"
  /\ \E b \in {"fx", "fy"} :
       pureCall' = [fn |-> "findPullRequestsForBranch", branchName |-> b,
                    requests |-> <<>>, ret |-> <<>>]
  /\ pc' = "list_head"
  /\ UNCHANGED <<clientFrame, thrown>>

\* pulls.list with the head filter: data, a 422, or another failure.
ListHead ==
  /\ pc = "list_head"
  /\ \/ /\ pureCall' = [pureCall EXCEPT
                           !.requests = Append(@, "ok"),
                           !.ret = FirstPage(ListForHead(remote, pureCall.branchName))]
        /\ pc' = "done"
        /\ UNCHANGED thrown
     \/ /\ pureCall' = [pureCall EXCEPT !.requests = Append(@, "422")]
        /\ pc' = "list_plain"
        /\ UNCHANGED thrown
     \/ /\ pureCall' = [pureCall EXCEPT !.requests = Append(@, "error")]
        /\ thrown' = FetchHeadError(pureCall.branchName, TransportMessage)
        /\ pc' = "done"
  /\ UNCHANGED clientFrame

\* After a 422: pulls.list without the head filter, filtered on head.ref.
ListPlain ==
  /\ pc = "list_plain"
  /\ \/ /\ pureCall' = [pureCall EXCEPT
                           !.requests = Append(@, "ok"),
                           !.ret = FilterByHeadRef(FirstPage(remote),
                                                   pureCall.branchName)]
        /\ UNCHANGED thrown
     \/ /\ pureCall' = [pureCall EXCEPT !.requests = Append(@, "error")]
        /\ thrown' = FetchError(TransportMessage)
  /\ pc' = "done"
  /\ UNCHANGED clientFrame

NextClient ==
  \/ CallGetAllPullRequests
  \/ GetPage
  \/ CallFindPullRequestsForBranch
  \/ ListHead
  \/ ListPlain

SpecClient == InitClient /\ [][NextClient]_vars

\* The awaited requests complete: a call that can take a step takes it.
SpecClientFair == SpecClient /\ WF_vars(NextClient)

(***************************************************************************)
(* The pure helpers, called on their own                                   *)
(***************************************************************************)
PureNames == {"main", "master", "develop", "dev", "fx", "fy"}
PurePRs ==
  {Null} \cup [kind : {"detail"}, number : {11}, head_ref : {"fx"},
               state : {"open", "closed"}, merged : BOOLEAN]
PureOptions == [merged : BOOLEAN, closed : BOOLEAN, dryRun : {FALSE}, force : {FALSE}]
PureProtected == {ProtectedBranches, <<>>, <<"fx">>}

InitPure ==
  /\ entry = "helpers"
  /\ options \in PureOptions
  /\ localBranches = <<>>
  /\ currentBranch \in PureNames
  /\ remote = <<>>
  /\ env = AnyFault
  /\ run = 1
  /\ prev = NoPrev
  /\ InitRun

pureFrame ==
  <<inputs, envVars, pc, branches, i, fpVars, fpCalls, batchVars, path,
    resultVars, deleteVars>>

CallShouldDeleteBranch ==
  /\ \E pr \in PurePRs :
       pureCall' = [fn |-> "shouldDeleteBranch", pr |-> pr, options |-> options,
                    ret |-> shouldDeleteBranch(pr, options)]
  /\ UNCHANGED pureFrame

CallIsBranchSafeToDelete ==
  /\ \E b \in PureNames, protected \in PureProtected :
       pureCall' = [fn |-> "isBranchSafeToDelete", branchName |-> b,
                    currentBranch |-> currentBranch, protectedBranches |-> protected,
                    ret |-> isBranchSafeToDelete(b, currentBranch, protected)]
  /\ UNCHANGED pureFrame

\* The groups argument: each of three branches is in one group or in none.
GroupNames == {"merged", "closed", "open", "noPR", "error"}

PureNumber(b) == CASE b = "fx" -> 10 [] b = "fy" -> 11 [] OTHER -> 12

GroupEntry(b, g) ==
  IF g = "error" THEN [branch |-> b, error |-> TransportMessage]
  ELSE IF g = "noPR" THEN [branch |-> b, pr |-> Null]
  ELSE [branch |-> b,
        pr |-> [kind |-> "detail", number |-> PureNumber(b), head_ref |-> b,
                state |-> IF g = "open" THEN "open" ELSE "closed",
                merged |-> g = "merged"]]

GroupOf(place, g) ==
  LET members == SelectSeq(NameOrder, LAMBDA b : place[b] = g)
  IN  [k \in 1..Len(members) |-> GroupEntry(members[k], g)]

PureGroups ==
  {[g \in GroupNames |-> GroupOf(place, g)] :
     place \in [Names -> GroupNames \cup {"absent"}]}

CallFilterBranchesForDeletion ==
  /\ \E branchGroups \in PureGroups :
       pureCall' = [fn |-> "filterBranchesForDeletion", branchGroups |-> branchGroups,
                    options |-> options, currentBranch |-> currentBranch,
                    ret |-> filterBranchesForDeletion(branchGroups, options,
                                                      currentBranch)]
  /\ UNCHANGED pureFrame

NextPure ==
  \/ CallShouldDeleteBranch
  \/ CallIsBranchSafeToDelete
  \/ CallFilterBranchesForDeletion

SpecPure == InitPure /\ [][NextPure]_vars

(***************************************************************************)
(* The command and the matcher's entry functions together                  *)
(***************************************************************************)
Init == InitMain \/ InitMatcher

Next ==
  \/ MainStart
  \/ BatchStart
  \/ BatchBranch
  \/ FPExact
  \/ FPExact422
  \/ FPExactDetails
  \/ FPSearch
  \/ FPSearchDetails
  \/ FPFull
  \/ FPFullDetails
  \/ Resume
  \/ GroupFilter
  \/ MainConfirm
  \/ MainDelete

Spec == Init /\ [][Next]_vars

(***************************************************************************)
(* Properties                                                              *)
(***************************************************************************)
Last(s) == s[Len(s)]

Guarded(b) == b = currentBranch \/ b \in {"main", "master", "develop", "dev"}

GroupCount(g) ==
  Len(g.merged) + Len(g.closed) + Len(g.open) + Len(g.noPR) + Len(g.error)

\* How many branches the running entry function has settled so far.
SettledCount ==
  IF entry = "main" THEN Len(report)
  ELSE IF entry = "groupBranchesByPRStatus" THEN GroupCount(groups)
  ELSE Len(branchStatus)

InLookup ==
  pc \in {"fp_exact", "fp_exact_422", "fp_exact_details", "fp_search",
          "fp_search_details", "fp_full", "fp_full_details", "fp_return"}

LoopOver == pc \in {"filter", "confirm", "delete", "done"} /\ thrown = NoError

\* C1: main attempts gitOps.deleteBranch on a branch only if the lookup of that
\* branch returned a pull request of that branch for which the merged/closed
\* flags call for deletion; a branch whose lookup found nothing, found an open
\* pull request or threw is never among the attempts.
C1_DeletesOnlyResolved ==
  /\ \A k \in 1..Len(attempts) :
       \E r \in 1..Len(report) :
         /\ report[r].branch = attempts[k].branch
         /\ report[r].line # "Error checking PR"
         /\ report[r].pr # Null
         /\ report[r].pr.head_ref = attempts[k].branch
         /\ report[r].pr.state # "open"
         /\ \/ options.merged /\ report[r].pr.merged
            \/ options.closed /\ report[r].pr.state = "closed" /\ ~report[r].pr.merged
  /\ \A r \in 1..Len(report) :
       (\/ report[r].line = "Error checking PR"
        \/ report[r].pr = Null
        \/ report[r].pr.state = "open")
         => \A k \in 1..Len(attempts) : attempts[k].branch # report[r].branch

C1_Witness ==
  /\ entry = "main"
  /\ pc = "done"
  /\ Len(attempts) > 0
  /\ \E r \in 1..Len(report) :
       \/ report[r].line = "Error checking PR"
       \/ report[r].pr = Null
       \/ report[r].pr.state = "open"

\* C2: neither the deletion list of filterBranchesForDeletion or
\* findBranchesToDelete, nor main's list and its deleteBranch attempts, ever
\* holds the current branch or one of main, master, develop, dev.
C2_NeverCurrentOrProtected ==
  /\ \A k \in 1..Len(branchesToDelete) : ~Guarded(branchesToDelete[k].branch)
  /\ \A k \in 1..Len(attempts) : ~Guarded(attempts[k].branch)

C2_Witness ==
  /\ entry = "groupBranchesByPRStatus"
  /\ pc = "done"
  /\ options.merged
  /\ Len(branchesToDelete) > 0
  /\ \E k \in 1..Len(groups.merged) : groups.merged[k].branch = "main"
  /\ \E k \in 1..Len(groups.merged) : groups.merged[k].branch = currentBranch

\* C3: shouldDeleteBranch(pr, options) is true exactly when pr is present and
\* either the merged flag is set and pr is merged, or the closed flag is set
\* and pr is closed and not merged; with neither flag set it is false.
C3_ShouldDeleteExactly ==
  pureCall.fn = "shouldDeleteBranch" =>
    /\ pureCall.ret =
         (/\ pureCall.pr # Null
          /\ \/ pureCall.options.merged /\ pureCall.pr.merged
             \/ /\ pureCall.options.closed
                /\ pureCall.pr.state = "closed"
                /\ ~pureCall.pr.merged)
    /\ (~pureCall.options.merged /\ ~pureCall.options.closed) => ~pureCall.ret

C3_Witness ==
  /\ pureCall.fn = "shouldDeleteBranch"
  /\ pureCall.pr # Null
  /\ pureCall.pr.merged
  /\ pureCall.pr.state = "closed"
  /\ pureCall.options.closed
  /\ ~pureCall.options.merged
  /\ ~pureCall.ret

\* C4: isBranchSafeToDelete(branchName, currentBranch, protectedBranches) is
\* false exactly when branchName is the current branch or a member of the
\* protected list, and true otherwise.
C4_SafeExactly ==
  pureCall.fn = "isBranchSafeToDelete" =>
    pureCall.ret =
      ~(\/ pureCall.branchName = pureCall.currentBranch
        \/ pureCall.branchName \in Range(pureCall.protectedBranches))

C4_Witness ==
  /\ pureCall.fn = "isBranchSafeToDelete"
  /\ pureCall.branchName = pureCall.currentBranch
  /\ pureCall.branchName \notin Range(pureCall.protectedBranches)
  /\ ~pureCall.ret

\* C5: on the batch path the branch-to-PR index answers a lookup with the
\* first pull request of the bulk listing whose head is that branch (the
\* most recently updated one); later duplicates do not replace it.
C5_FirstOccurrenceWins ==
  path = "batch" =>
    \A h \in DOMAIN branchToPRMap :
      branchToPRMap[h] = Find(SelectSeq(allPRs, LAMBDA p : p.head_ref = h))

\* C6: called on the same branches and the same remote data, the fallback
\* path and the batch path file every branch alike: the same groups, the same
\* status entries and the same deletion list.
C6_PathsAgree ==
  (run = 2 /\ pc = "done" /\ prev.path = "fallback" /\ path = "batch") =>
    /\ prev.groups = groups
    /\ prev.branchStatus = branchStatus
    /\ prev.branchesToDelete = branchesToDelete

\* A lookup whose exact listing, three searches and full listing all
\* completed and none of which produced a pull request of the branch.
ExhaustedWithoutMatch ==
  /\ pc = "fp_return"
  /\ Len(calls) > 0
  /\ Last(calls).op = "pulls.list all"
  /\ \A k \in 1..Len(calls) : calls[k].op # "pulls.get" /\ calls[k].ok # "error"

FiledAsNoPR ==
  CASE entry = "main" ->
         /\ report' = Append(report, [branch |-> branches[i], line |-> "No PR found",
                                      pr |-> Null, message |-> NoError])
         /\ branchesToDelete' = branchesToDelete
    [] entry = "groupBranchesByPRStatus" ->
         groups' = [groups EXCEPT !.noPR = Append(@, [branch |-> branches[i], pr |-> Null])]
    [] entry = "findBranchesToDelete" ->
         /\ Len(branchStatus') = Len(branchStatus) + 1
         /\ Last(branchStatus').branch = branches[i]
         /\ Last(branchStatus').pr = Null
         /\ Last(branchStatus').status = "No PR found"
         /\ branchesToDelete' = branchesToDelete

\* C7: when the exact listing, the three searches and the full listing all
\* complete without a pull request of the branch, findPRForBranch returns
\* none and the caller files the branch as noPR / "No PR found", not as an
\* error.
C7_NoMatchIsNoPR ==
  [][ExhaustedWithoutMatch => (ret = Returned(Null) /\ FiledAsNoPR)]_vars

C7_Witness ==
  /\ ExhaustedWithoutMatch
  /\ ret.kind = "returned"
  /\ ret.pr = Null
  /\ Len(calls) = 5

FiledAsError(m) ==
  CASE entry = "main" ->
         /\ report' = Append(report, [branch |-> branches[i], line |-> "Error checking PR",
                                      pr |-> Null, message |-> m])
         /\ branchesToDelete' = branchesToDelete
    [] entry = "groupBranchesByPRStatus" ->
         groups' = [groups EXCEPT !.error = Append(@, [branch |-> branches[i], error |-> m])]
    [] entry = "findBranchesToDelete" ->
         /\ branchStatus' = Append(branchStatus,
                                   [branch |-> branches[i], pr |-> Null,
                                    status |-> "Error: " \o m, shouldDelete |-> FALSE])
         /\ branchesToDelete' = branchesToDelete

ErrorCount ==
  IF entry = "groupBranchesByPRStatus" THEN Len(groups.error)
  ELSE Len(SelectSeq(branchStatus, LAMBDA e : e.pr = Null /\ e.status # "No PR found"))

C9_FallbackCoversEveryBranch ==
  path = "fallback" =>
    /\ thrown = NoError
    /\ branches = localBranches
    /\ Len(fpCalls) <= Len(branches)
    /\ fpCalls = SubSeq(branches, 1, Len(fpCalls))
    /\ allPRs = <<>>
    /\ branchToPRMap = EmptyMap
    /\ SettledCount = Len(fpCalls) - (IF InLookup THEN 1 ELSE 0)
    /\ LoopOver => fpCalls = branches
    /\ pc \in {"filter", "done"} \/ InLookup

C9_Witness ==
  /\ path = "fallback"
  /\ pc = "done"
  /\ Len(localBranches) = 2
  /\ fpCalls = localBranches
  /\ SettledCount = 2

EveryPhaseThrew(log) ==
  \A op \in {"pulls.list head", "search head:", "search in:title", "search bare",
             "pulls.list all"} :
    \E k \in 1..Len(log) : log[k].op = op /\ log[k].ok = "error"

ExactPhaseFailed(log) ==
  /\ Len(log) > 0
  /\ Last(log).ok = "error"
  /\ \A k \in 1..Len(log) :
       log[k].op \in {"pulls.list head", "pulls.list", "pulls.get"}

ReportedForDeletion ==
  LET marked == SelectSeq(report, LAMBDA r : r.line = "delete")
  IN  [k \in 1..Len(marked) |-> [branch |-> marked[k].branch, pr |-> marked[k].pr]]

\* C11: with options.dryRun set, main still computes the deletion list (it
\* holds exactly the branches reported for deletion) but never prompts and
\* never calls gitOps.deleteBranch, whatever the list and the other flags,
\* force included.
C11_DryRunDeletesNothing ==
  (entry = "main" /\ options.dryRun) =>
    /\ attempts = <<>>
    /\ deletedCount = 0
    /\ answer = NotAsked
    /\ pc \notin {"confirm", "delete"}
    /\ (pc = "done" /\ thrown = NoError) => branchesToDelete = ReportedForDeletion

C11_Witness ==
  /\ entry = "main"
  /\ options.dryRun
  /\ options.force
  /\ pc = "done"
  /\ Len(branchesToDelete) = 2

YesAnswers == {"y", "Y", "yes", "Yes", "YES"}

\* C12: without options.force, main calls gitOps.deleteBranch only after the
\* prompt was answered and only if the answer is y or yes in any letter case,
\* and such an answer lets the deletion run; with options.force there is no
\* prompt and the deletion runs.
C12_ConfirmationGuardsDeletion ==
  entry = "main" =>
    /\ ~options.force =>
         /\ answer = NotAsked => attempts = <<>>
         /\ attempts # <<>> => answer \in YesAnswers
         /\ (pc = "done" /\ answer \in YesAnswers) =>
              Len(attempts) = Len(branchesToDelete)
         /\ (answer # NotAsked /\ answer \notin YesAnswers) =>
              pc = "done" /\ attempts = <<>>
    /\ options.force =>
         /\ answer = NotAsked
         /\ pc # "confirm"
         /\ (pc = "done" /\ ~options.dryRun /\ thrown = NoError) =>
              Len(attempts) = Len(branchesToDelete)

C12_Witness ==
  /\ entry = "main"
  /\ ~options.force
  /\ answer = "Yes"
  /\ pc = "done"
  /\ Len(attempts) > 0

\* C13: in main's deletion phase gitOps.deleteBranch is attempted once for
\* every entry of the deletion list, in list order, whichever earlier attempts
\* threw, and deletedCount is the number of attempts that did not throw.
C13_EveryListedBranchAttempted ==
  entry = "main" =>
    /\ Len(attempts) <= Len(branchesToDelete)
    /\ \A k \in 1..Len(attempts) : attempts[k].branch = branchesToDelete[k].branch
    /\ deletedCount = Cardinality({k \in 1..Len(attempts) : attempts[k].ok})
    /\ pc = "delete" => Len(attempts) = i - 1
    /\ (pc = "done" /\ attempts # <<>>) => Len(attempts) = Len(branchesToDelete)

C13_Witness ==
  /\ entry = "main"
  /\ pc = "done"
  /\ Len(attempts) = 2
  /\ ~attempts[1].ok
  /\ attempts[2].ok
  /\ deletedCount = 1

\* The entries of one group that may be deleted, each with its reason.
Kept(entries, reason, on, current) ==
  LET ok == SelectSeq(entries,
              LAMBDA e : e.branch # current
                         /\ e.branch \notin {"main", "master", "develop", "dev"})
  IN  IF on THEN [k \in 1..Len(ok) |->
                    [branch |-> ok[k].branch, pr |-> ok[k].pr, reason |-> reason]]
      ELSE <<>>

\* C14: filterBranchesForDeletion returns exactly the entries of the merged
\* group (when options.merged) followed by those of the closed group (when
\* options.closed) that are neither the current branch nor protected, and
\* nothing of the open, noPR and error groups; with fx merged (#10), fy open
\* (#11), current branch main and merged only, the list is exactly fx.
C14_FilterExactly ==
  pureCall.fn = "filterBranchesForDeletion" =>
    /\ pureCall.ret =
         Kept(pureCall.branchGroups.merged, "merged", pureCall.options.merged,
              pureCall.currentBranch)
         \o Kept(pureCall.branchGroups.closed, "closed", pureCall.options.closed,
                 pureCall.currentBranch)
    /\ \A k \in 1..Len(pureCall.ret) :
         \A g \in {"open", "noPR", "error"} :
           \A e \in Range(pureCall.branchGroups[g]) :
             e.branch # pureCall.ret[k].branch
    /\ (/\ pureCall.branchGroups.merged = <<GroupEntry("fx", "merged")>>
        /\ pureCall.branchGroups.open = <<GroupEntry("fy", "open")>>
        /\ pureCall.currentBranch = "main"
        /\ pureCall.options.merged /\ ~pureCall.options.closed)
         => pureCall.ret = <<[branch |-> "fx", pr |-> GroupEntry("fx", "merged").pr,
                              reason |-> "merged"]>>

C14_Witness ==
  /\ pureCall.fn = "filterBranchesForDeletion"
  /\ pureCall.branchGroups.merged = <<GroupEntry("fx", "merged")>>
  /\ pureCall.branchGroups.open = <<GroupEntry("fy", "open")>>
  /\ pureCall.branchGroups.closed = <<>>
  /\ pureCall.currentBranch = "main"
  /\ pureCall.options.merged
  /\ ~pureCall.options.closed
  /\ Len(pureCall.ret) = 1
  /\ pureCall.ret[1].branch = "fx"

C16_Returns422AllMatches ==
  (/\ pureCall.fn = "findPullRequestsForBranch"
   /\ pc = "done"
   /\ pureCall.requests = <<"422", "ok">>)
    => /\ thrown = NoError
       /\ pureCall.ret = FilterByHeadRef(remote, pureCall.branchName)

\* C17: without a since bound getAllPullRequests requests pages 1, 2, 3, ...
\* of 100, goes on exactly while the pages are full, stops after the first
\* page with fewer than 100 entries, and returns every pull request of the
\* remote listing once, in the remote order.
C17_PagesInOrderToTheEnd ==
  (pureCall.fn = "getAllPullRequests" /\ ~pureCall.since.present) =>
    /\ \A k \in 1..Len(pureCall.requests) : pureCall.requests[k] = k
    /\ pc = "page_loop" =>
         /\ pureCall.page = Len(pureCall.requests) + 1
         /\ Len(pureCall.allPRs) = 100 * Len(pureCall.requests)
         /\ Len(remote) >= 100 * Len(pureCall.requests)
    /\ (pc = "done" /\ thrown = NoError) =>
         /\ Len(pureCall.requests) = (Len(remote) \div 100) + 1
         /\ pureCall.allPRs = Summaries(remote)
         /\ pureCall.allPRs = getAllPullRequests(remote, NoSince)

C17_Witness ==
  /\ pureCall.fn = "getAllPullRequests"
  /\ ~pureCall.since.present
  /\ pc = "done"
  /\ thrown = NoError
  /\ Len(remote) = 200
  /\ pureCall.requests = <<1, 2, 3>>
  /\ Len(pureCall.allPRs) = 200

\* C18: called with a since bound against a remote that does not filter by
\* since itself, getAllPullRequests returns exactly the remote pull requests
\* updated at or after since: none older, none of those missing.
C18_ExactlySince ==
  (/\ pureCall.fn = "getAllPullRequests"
   /\ pureCall.since.present
   /\ env.since = "ignored"
   /\ pc = "done"
   /\ thrown = NoError)
    => pureCall.allPRs =
         Summaries(SelectSeq(remote, LAMBDA p : p.updated_at >= pureCall.since.at))

StrategyOrder ==
  <<"pulls.list head", "search head:", "search in:title", "search bare",
    "pulls.list all">>

StrategyOps ==
  {"pulls.list head", "search head:", "search in:title", "search bare",
   "pulls.list all"}

StrategyCalls == SelectSeq(calls, LAMBDA c : c.op \in StrategyOps)

Fetched == [op |-> "pulls.get", ok |-> "ok"]

\* C19: findPRForBranch issues its strategies' remote calls in the order
\* head-filtered listing, search 'head:<branch>', search 'in:title <branch>',
\* search '<branch>', full listing, each at most once and none skipped; once
\* the details of a match have been fetched no further remote call is issued,
\* and a returned pull request is the outcome of the last call of the lookup.
C19_StrictOrderStopsAtFirstMatch ==
  calls # <<>> =>
    LET tried == StrategyCalls
    IN  /\ Len(tried) <= Len(StrategyOrder)
        /\ \A k \in 1..Len(tried) : tried[k].op = StrategyOrder[k]
        /\ \A k \in 1..Len(calls) :
             calls[k].op = "pulls.get" =>
               /\ calls[k].ok = "ok" => k = Len(calls)
               /\ k > 1
               /\ calls[k - 1].ok = "ok"
               /\ calls[k - 1].op \in StrategyOps \cup {"pulls.list"}
        /\ (pc = "fp_return" /\ ret.kind = "returned" /\ ret.pr # Null) =>
             /\ Last(calls) = Fetched
             /\ ret.pr = getPullRequestDetails(target)
        /\ (/\ InLookup
            /\ Len(calls) > 1
            /\ calls[1] = [op |-> "pulls.list head", ok |-> "ok"]
            /\ Len(ListForHead(remote, branchName)) > 0) =>
             /\ calls[2].op = "pulls.get"
             /\ Len(calls) = 2

C19_Witness ==
  /\ pc = "fp_return"
  /\ ret.kind = "returned"
  /\ ret.pr # Null
  /\ calls = <<[op |-> "pulls.list head", ok |-> "ok"],
               [op |-> "search head:", ok |-> "ok"],
               [op |-> "search in:title", ok |-> "ok"],
               Fetched>>

SearchQueries == <<"search head:", "search in:title", "search bare">>

\* C20: a search query that throws inside findPRForBranch is followed by the
\* next search query, or after the third by the full listing, and a lookup in
\* which a search query was issued never ends by throwing.
C20_FailedSearchIsSkipped ==
  /\ \A k \in 1..Len(calls) : \A j \in 1..3 :
       (calls[k] = [op |-> SearchQueries[j], ok |-> "error"]) =>
         IF k < Len(calls)
         THEN calls[k + 1].op = StrategyOrder[j + 2]
         ELSE \/ pc = "fp_search" /\ q = j + 1
              \/ pc = "fp_full" /\ j = 3
  /\ ret.kind = "threw" =>
       \A k \in 1..Len(calls) :
         calls[k].op \notin {"search head:", "search in:title", "search bare"}

C20_Witness ==
  /\ pc = "fp_return"
  /\ ret.kind = "returned"
  /\ calls = <<[op |-> "pulls.list head", ok |-> "ok"],
               [op |-> "search head:", ok |-> "error"],
               [op |-> "search in:title", ok |-> "error"],
               [op |-> "search bare", ok |-> "error"],
               [op |-> "pulls.list all", ok |-> "ok"]>>

IsFetched(pr) == pr.kind = "detail" /\ pr = getPullRequestDetails(pr.number)

Classified == groups.merged \o groups.closed \o groups.open

\* C21: every pull request that findPRForBranch returns is the answer of the
\* getPullRequestDetails call made last in the lookup, for the number of the
\* match and right after the call that matched; every pull request in a
\* merged, closed or open group, in a deletion list, in a status entry or in
\* a report line is such a details record, never a list or search entry.
C21_OnlyDetailsAreReturned ==
  /\ (pc = "fp_return" /\ ret.kind = "returned" /\ ret.pr # Null) =>
       /\ IsFetched(ret.pr)
       /\ ret.pr.number = target
       /\ Len(calls) >= 2
       /\ calls[Len(calls)] = [op |-> "pulls.get", ok |-> "ok"]
       /\ calls[Len(calls) - 1].ok = "ok"
       /\ calls[Len(calls) - 1].op # "pulls.get"
  /\ \A k \in 1..Len(Classified) : IsFetched(Classified[k].pr)
  /\ \A k \in 1..Len(branchesToDelete) : IsFetched(branchesToDelete[k].pr)
  /\ \A k \in 1..Len(branchStatus) :
       branchStatus[k].pr # Null => IsFetched(branchStatus[k].pr)
  /\ \A k \in 1..Len(report) : report[k].pr # Null => IsFetched(report[k].pr)

C21_Witness ==
  /\ entry = "groupBranchesByPRStatus"
  /\ path = "fallback"
  /\ pc = "done"
  /\ Len(groups.merged) = 1
  /\ Len(branchesToDelete) = 1
  /\ branchesToDelete[1].pr.kind = "detail"

OwnWithHead(b) == SelectSeq(remote, LAMBDA p : p.head_ref = b /\ ~p.fork)

AnyWithHead(b) == SelectSeq(remote, LAMBDA p : p.head_ref = b)

NewestFirst(prs) == \A k \in 1..Len(prs) : prs[k].updated_at <= prs[1].updated_at

\* C22: when the exact head-match strategy of findPRForBranch returns, it
\* returns the details of the first entry of the updated-descending listing of
\* the pull requests whose head is owner:branchName, which is the most
\* recently updated of them, however many there are; after a 422 the same
\* holds of the pull requests whose head.ref is branchName.
C22_ExactMatchReturnsNewest ==
  /\ (/\ pc = "fp_return"
      /\ calls = <<[op |-> "pulls.list head", ok |-> "ok"],
                   [op |-> "pulls.get", ok |-> "ok"]>>) =>
       /\ Len(OwnWithHead(branchName)) > 0
       /\ ret = Returned(Detail(OwnWithHead(branchName)[1]))
       /\ NewestFirst(OwnWithHead(branchName))
  /\ (/\ pc = "fp_return"
      /\ calls = <<[op |-> "pulls.list head", ok |-> "422"],
                   [op |-> "pulls.list", ok |-> "ok"],
                   [op |-> "pulls.get", ok |-> "ok"]>>) =>
       /\ Len(AnyWithHead(branchName)) > 0
       /\ ret = Returned(Detail(AnyWithHead(branchName)[1]))
       /\ NewestFirst(AnyWithHead(branchName))

C22_Witness ==
  /\ pc = "fp_return"
  /\ calls = <<[op |-> "pulls.list head", ok |-> "ok"],
               [op |-> "pulls.get", ok |-> "ok"]>>
  /\ Len(OwnWithHead(branchName)) = 2
  /\ OwnWithHead(branchName)[1].merged # OwnWithHead(branchName)[2].merged
  /\ ret.pr.number = OwnWithHead(branchName)[1].number

\* The branches the batch loop has been through.
Processed == IF pc = "batch_loop" THEN i - 1 ELSE Len(branches)

\* C23: on the batch path (the bulk fetch succeeded) the run has called
\* getAllPullRequests once, before anything else, has called findPRForBranch
\* for no branch and so issued no head-filtered listing and no search, and
\* has called getPullRequestDetails once for every branch gone through that
\* is in the index and for no other: at most once per input branch.
C23_BatchPathCalls ==
  path = "batch" =>
    /\ fpCalls = <<>>
    /\ Len(calls) >= 1
    /\ calls[1] = [op |-> "pulls.list since", ok |-> "ok"]
    /\ \A k \in 2..Len(calls) : calls[k].op = "pulls.get"
    /\ Len(calls) - 1 =
         Cardinality({k \in 1..Processed : branches[k] \in DOMAIN branchToPRMap})
    /\ Len(calls) - 1 <= Len(branches)

C23_Witness ==
  /\ path = "batch"
  /\ pc = "done"
  /\ Len(branches) = 2
  /\ Len(calls) = 2
  /\ calls[2] = [op |-> "pulls.get", ok |-> "error"]

\* C24: findBranchesToDelete builds branchStatus with one entry per input
\* branch, in the order of the input: the entries so far are those of the
\* branches gone through, and on return there is exactly one per branch, on
\* the batch path and on the fallback path, whichever lookups failed.
C24_OneStatusPerBranchInOrder ==
  entry = "findBranchesToDelete" =>
    /\ Len(branchStatus) <= Len(localBranches)
    /\ \A k \in 1..Len(branchStatus) : branchStatus[k].branch = localBranches[k]
    /\ (pc = "batch_loop" \/ InLookup) => Len(branchStatus) = i - 1
    /\ pc = "done" =>
         /\ Len(branchStatus) = Len(localBranches)
         /\ path \in {"batch", "fallback"}
         /\ thrown = NoError

C24_Witness ==
  /\ entry = "findBranchesToDelete"
  /\ pc = "done"
  /\ path = "fallback"
  /\ Len(branchStatus) = 2
  /\ branchStatus[1].pr = Null
  /\ branchStatus[1].status # "No PR found"
  /\ branchStatus[2].pr # Null

GroupKeys == {"merged", "closed", "open", "noPR", "error"}

\* In how many places of the five groups the branch is filed.
Filings(b) ==
  Cardinality({<<key, k>> \in GroupKeys \X (1..Len(localBranches)) :
                 k <= Len(groups[key]) /\ groups[key][k].branch = b})

\* The branches the grouping loop has been through.
Grouped ==
  IF pc = "start" THEN 0
  ELSE IF pc = "batch_loop" \/ InLookup THEN i - 1
  ELSE Len(localBranches)

CountOf(log, what) == Cardinality({k \in 1..Len(log) : log[k] = what})

\* C25: groupBranchesByPRStatus files every input branch it has gone through
\* in exactly one place of the five groups, and every branch on return, on
\* the batch and on the fallback path; an entry of merged holds a details
\* record of the branch with merged = true, of closed one with state closed
\* and not merged, of open one with state open and not merged, of noPR no
\* pull request, of error the message of the lookup that threw; on the batch
\* path noPR holds exactly the branches absent from the index and error as
\* many branches as details fetches failed.
C25_ExactlyOneGroupPerBranch ==
  entry = "groupBranchesByPRStatus" =>
    /\ GroupCount(groups) = Grouped
    /\ \A k \in 1..Len(localBranches) :
         Filings(localBranches[k]) = IF k <= Grouped THEN 1 ELSE 0
    /\ \A k \in 1..Len(groups.merged) :
         /\ groups.merged[k].pr.merged
         /\ groups.merged[k].pr.head_ref = groups.merged[k].branch
    /\ \A k \in 1..Len(groups.closed) :
         /\ groups.closed[k].pr.state = "closed" /\ ~groups.closed[k].pr.merged
         /\ groups.closed[k].pr.head_ref = groups.closed[k].branch
    /\ \A k \in 1..Len(groups.open) :
         /\ groups.open[k].pr.state = "open" /\ ~groups.open[k].pr.merged
         /\ groups.open[k].pr.head_ref = groups.open[k].branch
    /\ \A k \in 1..Len(groups.noPR) : groups.noPR[k].pr = Null
    /\ \A k \in 1..Len(groups.error) : groups.error[k].error # NoError
    /\ path = "batch" =>
         /\ {groups.noPR[k].branch : k \in 1..Len(groups.noPR)} =
              {localBranches[k] : k \in 1..Grouped} \ DOMAIN branchToPRMap
         /\ Len(groups.error) = CountOf(calls, [op |-> "pulls.get", ok |-> "error"])
         /\ Len(Classified) = CountOf(calls, [op |-> "pulls.get", ok |-> "ok"])

C25_Witness ==
  /\ entry = "groupBranchesByPRStatus"
  /\ pc = "done"
  /\ path = "batch"
  /\ Len(localBranches) = 2
  /\ Len(groups.open) = 1
  /\ Len(groups.error) = 1

\* C26: findPRForBranch returns none only if no strategy that ran matched a
\* pull request of the branch: a lookup that ends with none has made no
\* details fetch, since one is made only for a match.
C26_NoneOnlyWithoutMatch ==
  (pc = "fp_return" /\ ret = Returned(Null)) =>
    \A k \in 1..Len(calls) : calls[k].op # "pulls.get"

\* The (branch, pull request number, reason) entries of a deletion list.
Entries(list) ==
  {<<list[k].branch, list[k].pr.number, list[k].reason>> : k \in 1..Len(list)}

\* C27: with no remote failure, findBranchesToDelete returns a deletion list
\* with the same (branch, pull request number, reason) entries, and as many,
\* as filterBranchesForDeletion applied to the groups that
\* groupBranchesByPRStatus returns for the same branches, options, current
\* branch and remote data; the order of the entries may differ.
C27_SameDeletionEntries ==
  (run = 2 /\ pc = "done") =>
    /\ entry = "findBranchesToDelete"
    /\ prev.branchesToDelete =
         filterBranchesForDeletion(prev.groups, options, currentBranch)
    /\ Entries(branchesToDelete) = Entries(prev.branchesToDelete)
    /\ Len(branchesToDelete) = Len(prev.branchesToDelete)

C27_Witness ==
  /\ run = 2
  /\ pc = "done"
  /\ Len(branchesToDelete) = 2
  /\ branchesToDelete # prev.branchesToDelete
  /\ Entries(branchesToDelete) = Entries(prev.branchesToDelete)

PagesBound == (Len(remote) \div 100) + 1

\* C28: a call of getAllPullRequests, with or without a since bound, on a
\* finite listing served consistently page by page, comes to its end; it
\* issues at most floor(n/100)+1 page requests for n remote pull requests, in
\* page order, and it ends either returning the accumulated list or, at the
\* first page request that fails, throwing 'Failed to get all PRs: ...'.
C28_PaginationTerminates ==
  /\ [](pureCall.fn = "getAllPullRequests" =>
          /\ Len(pureCall.requests) <= PagesBound
          /\ \A k \in 1..Len(pureCall.requests) : pureCall.requests[k] = k
          /\ pc \in {"page_loop", "done"}
          /\ thrown \in {NoError, GetAllError}
          /\ thrown # NoError => pc = "done" /\ Len(pureCall.requests) >= 1
          /\ pc = "page_loop" => thrown = NoError)
  /\ (pureCall.fn = "getAllPullRequests") ~> (pc = "done")

C28_Witness ==
  /\ pureCall.fn = "getAllPullRequests"
  /\ pureCall.since.present
  /\ pc = "done"
  /\ thrown = GetAllError
  /\ Len(remote) = 199
  /\ pureCall.requests = <<1, 2>>

====
